---- MODULE Spec2Model ----
(***************************************************************************)
(* A model of torch/csrc/deploy/interpreter/freeze.py: the traversal of    *)
(* the root paths (module-level loop, compile_path, compile_package,       *)
(* compile_file), the naming of a module (get_module_qualname) and the     *)
(* emission of the bytecode files and of main.c (write_bytecode,           *)
(* write_frozen, write_main).                                              *)
(*                                                                         *)
(* A string is a sequence of one-character strings, so that the pathlib    *)
(* operations (name, suffix, stem, parent, parts, relative_to), the joins  *)
(* and the sort are computed, not assumed.  A path is the sequence of its  *)
(* segments.  The file tree is the set of the paths of its files; its      *)
(* directories are the proper prefixes of these.  Freezer.verbose and      *)
(* Freezer.indent only shape what Freezer.msg prints; the model keeps the  *)
(* (code, path) pairs msg is called with.                                  *)
(***************************************************************************)
EXTENDS Integers, Sequences, FiniteSets, TLC

VARIABLES
    tree,            \* the file tree: the set of the paths of its files
    paths,           \* args.paths
    handled,         \* how many of args.paths the module-level loop has taken
    oss,             \* args.oss
    stack,           \* pending compile_path(path, top_package_path) calls, next first
    frozen_modules,  \* Freezer.frozen_modules
    log,             \* the (code, path) pairs handed to Freezer.msg
    bytecode_files,  \* bytecode_0.c .. bytecode_4.c; <<>> while not created
    main_c,          \* the lines of main.c; <<>> while not created
    pc,              \* position of the script
    run,             \* "first" or "second": which run of the script on the tree
    first_run        \* the artifacts the first run left, <<>> during it

vars == <<tree, paths, handled, oss, stack, frozen_modules, log, bytecode_files, main_c,
          pc, run, first_run>>

-----------------------------------------------------------------------------
(* Strings *)

\* The characters of the names of the model, in code point order.
Chars == <<".", "_", "a", "b", "c", "d", "e", "f", "g", "h", "i", "j", "k", "l",
           "m", "n", "o", "p", "q", "r", "s", "t", "u", "v", "w", "x", "y", "z">>

Ord(c) == CHOOSE i \in 1..Len(Chars) : Chars[i] = c

\* str.__lt__: lexicographic by code point, a proper prefix first.
RECURSIVE StrLess(_, _)
StrLess(s, t) ==
    IF t = <<>> THEN FALSE
    ELSE IF s = <<>> THEN TRUE
    ELSE IF Head(s) = Head(t) THEN StrLess(Tail(s), Tail(t))
    ELSE Ord(Head(s)) < Ord(Head(t))

\* str.rfind("."): the 0-based index of the last dot, -1 when there is none.
RECURSIVE RFindDot(_)
RFindDot(s) ==
    IF s = <<>> THEN -1
    ELSE IF s[Len(s)] = "." THEN Len(s) - 1
    ELSE RFindDot(SubSeq(s, 1, Len(s) - 1))

\* sep.join(segments)
RECURSIVE Join(_, _)
Join(sep, segments) ==
    IF segments = <<>> THEN <<>>
    ELSE IF Len(segments) = 1 THEN segments[1]
    ELSE segments[1] \o sep \o Join(sep, Tail(segments))

PY_SUFFIX == <<".", "p", "y">>
INIT_PY == <<"_", "_", "i", "n", "i", "t", "_", "_", ".", "p", "y">>

DENY_LIST ==
    { <<"d", "b", "m">>,
      <<"c", "u", "r", "s", "e", "s">>,
      <<"t", "k", "i", "n", "t", "e", "r">>,
      <<"t", "e", "s", "t">>,
      <<"t", "e", "s", "t", "s">>,
      <<"i", "d", "l", "e", "_", "t", "e", "s", "t">>,
      <<"_", "_", "p", "h", "e", "l", "l", "o", "_", "_", ".", "f", "o", "o", ".", "p", "y">>,
      <<"_", "b", "o", "o", "t", "s", "t", "r", "a", "p", ".", "p", "y">>,
      <<"_", "b", "o", "o", "t", "s", "t", "r", "a", "p", "_", "e", "x", "t", "e", "r", "n", "a", "l", ".", "p", "y">> }

NUM_BYTECODE_FILES == 5

-----------------------------------------------------------------------------
(* pathlib *)

\* PurePath.name: the last segment, "" for the empty path ".".
Name(p) == IF p = <<>> THEN <<>> ELSE p[Len(p)]

\* PurePath.parent: "." is its own parent.
Parent(p) == IF p = <<>> THEN <<>> ELSE SubSeq(p, 1, Len(p) - 1)

\* PurePath.suffix: from the last dot of the name, unless that dot is the
\* first or the last character.
Suffix(p) ==
    LET n == Name(p)
        i == RFindDot(n)
    IN  IF 0 < i /\ i < Len(n) - 1 THEN SubSeq(n, i + 1, Len(n)) ELSE <<>>

\* PurePath.stem: the name without its suffix.
Stem(p) ==
    LET n == Name(p)
        i == RFindDot(n)
    IN  IF 0 < i /\ i < Len(n) - 1 THEN SubSeq(n, 1, i) ELSE n

IsPrefix(d, p) == Len(d) <= Len(p) /\ SubSeq(p, 1, Len(d)) = d

\* PurePath.relative_to(base), for a base that is a prefix of the path (the
\* only use the script makes of it).
RelativeTo(p, base) == SubSeq(p, Len(base) + 1, Len(p))

-----------------------------------------------------------------------------
(* The file system *)

\* The directories: the proper prefixes of the files' paths.
Dirs(t) == UNION {{SubSeq(f, 1, n) : n \in 1..(Len(f) - 1)} : f \in t}

IsDir(t, p) == p \in Dirs(t)
IsFile(t, p) == p \in t

Exists(t, p) == IsFile(t, p) \/ IsDir(t, p)

\* The entries of directory d.
Children(t, d) == {p \in t \cup Dirs(t) : Len(p) = Len(d) + 1 /\ IsPrefix(d, p)}

\* The orders in which Path.iterdir may yield the entries of d: "the children
\* are yielded in arbitrary order", so every permutation.
IterDirs(t, d) ==
    LET c == Children(t, d)
        n == Cardinality(c)
    IN  {s \in [1..n -> c] : \A i, j \in 1..n : s[i] = s[j] => i = j}

\* PurePath.__lt__ on two entries of one directory: by name.
PathLess(p, q) == StrLess(Name(p), Name(q))

\* sorted(path.glob("*"))
SortedGlob(t, d) ==
    CHOOSE s \in IterDirs(t, d) :
        \A i \in 1..(Len(s) - 1) : PathLess(s[i], s[i + 1])

-----------------------------------------------------------------------------
(* The inputs *)

MaxFiles == 3
MaxPaths == 2

L == <<"l">>
A == <<"a">>

\* The files a tree is drawn from.
Universe ==
    { <<L, INIT_PY>>,
      <<L, <<"a", ".", "p", "y">> >>,
      <<L, <<"a", "_", "_", "b", ".", "p", "y">> >>,
      <<L, A, INIT_PY>>,
      <<L, A, <<"b", ".", "p", "y">> >>,
      <<L, A, <<"x", ".", "p", "y">> >>,
      <<L, A, <<"r", ".", "t", "x", "t">> >>,
      <<L, A, <<"_", "b", "o", "o", "t", "s", "t", "r", "a", "p", ".", "p", "y">> >>,
      <<L, A, <<"t", "e", "s", "t">>, INIT_PY>>,
      <<L, A, <<"c">>, INIT_PY>> }

Trees == {t \in SUBSET Universe : Cardinality(t) <= MaxFiles}

\* The paths the command line may name.
RootCandidates == { <<L>>, <<L, A, INIT_PY>> }

PathLists == UNION {[1..n -> RootCandidates] : n \in 0..MaxPaths}

\* The external compiler and marshal.dumps: compile() raises SyntaxError on
\* the source of x.py; the marshalled code object of any other file is its
\* type byte followed by a body that differs from file to file.
SyntaxOk(f) == Name(f) # <<"x", ".", "p", "y">>

Marshal(f) == <<227>> \o [i \in 1..(Len(f) - 1) |-> Len(Name(f)) + i]

-----------------------------------------------------------------------------
(* Naming and compilation *)

get_module_qualname(file_path, top_package_path) ==
    LET normalized_path == RelativeTo(file_path, Parent(top_package_path))
    IN  IF Name(normalized_path) = INIT_PY
        THEN Parent(Parent(normalized_path)) \o <<Name(Parent(normalized_path))>>
        ELSE Parent(normalized_path) \o <<Stem(normalized_path)>>

\* "M_" + "__".join(module_qualname)
CName(module_qualname) == <<"M", "_">> \o Join(<<"_", "_">>, module_qualname)

\* ".".join(module_qualname)
ModuleName(module_qualname) == Join(<<".">>, module_qualname)

\* Size without the negation for packages.
Size_NeverNegative(path, bytecode) == Len(bytecode)

\* Python packages are signified by negative size.
Size(path, bytecode) ==
    IF Name(path) = INIT_PY THEN 0 - Len(bytecode) ELSE Len(bytecode)

\* The FrozenModule compile_file appends for `path`.  The fields path and
\* top_package_path are not fields of the dataclass: they record the
\* arguments of the compile_file call the record comes from.
FrozenModule(path, top_package_path) ==
    LET module_qualname == get_module_qualname(path, top_package_path)
        bytecode == Marshal(path)
    IN  [module_name |-> ModuleName(module_qualname),
         c_name |-> CName(module_qualname),
         size |-> Size(path, bytecode),
         bytecode |-> bytecode,
         path |-> path,
         top_package_path |-> top_package_path]

Call(path, top_package_path) == [path |-> path, top_package_path |-> top_package_path]

\* compile_package without the test for __init__.py.
PackageCode_NoMarkerTest(t, path) ==
    IF Name(path) \in DENY_LIST THEN "X" ELSE "P"

\* compile_package's test of a directory: "X" deny-listed, "S" not a package
\* directory, "P" a package directory.
PackageCode(t, path) ==
    IF Name(path) \in DENY_LIST THEN "X"
    ELSE IF \E child \in Children(t, path) : Name(child) = INIT_PY THEN "P"
    ELSE "S"

\* compile_file taking __init__.py for a mere marker, not a file to freeze.
FileCode_InitNotFrozen(path) ==
    IF Suffix(path) # PY_SUFFIX \/ Name(path) = INIT_PY THEN "N"
    ELSE IF Name(path) \in DENY_LIST THEN "X"
    ELSE "F"

\* compile_file's test of a file: "N" not a Python file, "X" deny-listed,
\* "F" a file to freeze.
FileCode(path) ==
    IF Suffix(path) # PY_SUFFIX THEN "N"
    ELSE IF Name(path) \in DENY_LIST THEN "X"
    ELSE "F"

\* compile() wrapped in a try that skips the file.
SyntaxErrorSkipsFile == TRUE

\* Whether the run goes on after compile() failed on a file.
SurvivesSyntaxError == FALSE

-----------------------------------------------------------------------------
(* Emission *)

\* range(0, len(bytecode), 16): the lines of at most 16 bytes.
RECURSIVE Chunks(_)
Chunks(bytecode) ==
    IF bytecode = <<>> THEN <<>>
    ELSE IF Len(bytecode) <= 16 THEN <<bytecode>>
    ELSE <<SubSeq(bytecode, 1, 16)>> \o Chunks(SubSeq(bytecode, 17, Len(bytecode)))

\* write_frozen: the definition "unsigned char <c_name>[] = { <lines> };".
write_frozen(m) == [c_name |-> m.c_name, lines |-> Chunks(m.bytecode)]

\* An iterator that is never advanced.
NextOfCycle_Stuck(it) == it

\* next(it) of itertools.cycle(bytecode_files): `it` is the index of the file
\* the iterator yields next.
NextOfCycle(it) == (it % NUM_BYTECODE_FILES) + 1

\* The loop of write_bytecode over the modules `ms`.
RECURSIVE WriteModules(_, _, _)
WriteModules(files, ms, it) ==
    IF ms = <<>> THEN files
    ELSE WriteModules([files EXCEPT ![it] = Append(@, write_frozen(Head(ms)))],
                      Tail(ms), NextOfCycle(it))

\* write_bytecode: the contents of bytecode_0.c .. bytecode_4.c.
BytecodeFiles(ms) == WriteModules([i \in 1..NUM_BYTECODE_FILES |-> <<>>], ms, 1)

\* A line of main.c, as the tokens that matter.
Line(kind, name, symbol, size) ==
    [kind |-> kind, name |-> name, symbol |-> symbol, size |-> size]

NoText == <<>>
Zero == <<"0">>
Quoted(str) == <<"\"">> \o str \o <<"\"">>

ExternLine(m) == Line("extern", NoText, m.c_name, 0)

\* '\t{"<module_name>", <c_name>, <size>},'
EntryLine(m) == Line("entry", Quoted(m.module_name), m.c_name, m.size)

\* "{0, 0, 0} /* sentinel */" and "};"
MAIN_SUFFIX == <<Line("entry", Zero, Zero, 0), Line("end", NoText, NoText, 0)>>

MAIN_INCLUDES == <<Line("include", NoText, NoText, 0)>>

\* "struct _frozen _PyImport_FrozenModules_torch[] = {"
MAIN_PREFIX == <<Line("table_torch", NoText, NoText, 0)>>

\* "struct _frozen _PyImport_FrozenModules[] = {"
FAKE_PREFIX == <<Line("table", NoText, NoText, 0)>>

\* The entries in reverse catalog order.
MainEntries_Reversed(ms) == [i \in 1..Len(ms) |-> EntryLine(ms[Len(ms) + 1 - i])]

\* The entries write_main puts between MAIN_PREFIX and MAIN_SUFFIX.
MainEntries(ms) == [i \in 1..Len(ms) |-> EntryLine(ms[i])]

\* write_main: the lines of main.c.
MainFile(ms, with_fake) ==
    MAIN_INCLUDES
    \o [i \in 1..Len(ms) |-> ExternLine(ms[i])]
    \o MAIN_PREFIX
    \o MainEntries(ms)
    \o MAIN_SUFFIX
    \o (IF with_fake THEN FAKE_PREFIX \o MAIN_SUFFIX ELSE <<>>)

-----------------------------------------------------------------------------
(* The script *)

Init ==
    /\ tree \in Trees
    /\ paths \in PathLists
    /\ oss \in BOOLEAN
    /\ handled = 0
    /\ stack = <<>>
    /\ frozen_modules = <<>>
    /\ log = {}
    /\ bytecode_files = <<>>
    /\ main_c = <<>>
    /\ pc = "paths"
    /\ run = "first"
    /\ first_run = <<>>

\* One turn of "for p in args.paths": the compile_path calls it makes.
RootCalls(t, path) ==
    IF IsDir(t, path) /\ ~Exists(t, path \o <<INIT_PY>>)
    THEN LET mods == SortedGlob(t, path)
         IN  [i \in 1..Len(mods) |-> Call(mods[i], mods[i])]
    ELSE <<Call(path, path)>>

NextRootPath ==
    /\ pc = "paths"
    /\ stack = <<>>
    /\ handled < Len(paths)
    /\ handled' = handled + 1
    /\ stack' = RootCalls(tree, paths[handled + 1])
    /\ UNCHANGED <<tree, paths, oss, frozen_modules, log, bytecode_files, main_c,
                   pc, run, first_run>>

\* compile_path on a directory: compile_package.
compile_package ==
    /\ pc = "paths"
    /\ stack # <<>>
    /\ LET path == Head(stack).path
           top_package_path == Head(stack).top_package_path
           code == PackageCode(tree, path)
       IN  /\ IsDir(tree, path)
           /\ log' = log \cup {<<code, path>>}
           /\ IF code = "P"
              THEN \E children \in IterDirs(tree, path) :
                      stack' = [i \in 1..Len(children) |->
                                   Call(children[i], top_package_path)]
                               \o Tail(stack)
              ELSE stack' = Tail(stack)
    /\ UNCHANGED <<tree, paths, handled, oss, frozen_modules, bytecode_files,
                   main_c, pc, run, first_run>>

\* compile_path on anything else: compile_file.  The assertion fails on a
\* path that does not exist, and compile() raises on invalid source: the
\* exception ends the script.
compile_file ==
    /\ pc = "paths"
    /\ stack # <<>>
    /\ LET path == Head(stack).path
           top_package_path == Head(stack).top_package_path
           code == FileCode(path)
       IN  /\ ~IsDir(tree, path)
           /\ IF ~IsFile(tree, path)
              THEN /\ pc' = "aborted"
                   /\ UNCHANGED <<stack, log, frozen_modules>>
              ELSE /\ log' = log \cup {<<code, path>>}
                   /\ IF code # "F"
                      THEN /\ stack' = Tail(stack)
                           /\ UNCHANGED <<pc, frozen_modules>>
                      ELSE IF ~SyntaxOk(path)
                      THEN IF SurvivesSyntaxError
                           THEN /\ stack' = Tail(stack)
                                /\ UNCHANGED <<pc, frozen_modules>>
                           ELSE /\ pc' = "aborted"
                                /\ UNCHANGED <<stack, frozen_modules>>
                      ELSE /\ frozen_modules' =
                                  Append(frozen_modules,
                                         FrozenModule(path, top_package_path))
                           /\ stack' = Tail(stack)
                           /\ UNCHANGED pc
    /\ UNCHANGED <<tree, paths, handled, oss, bytecode_files, main_c, run, first_run>>

\* f.write_bytecode(args.install_dir)
write_bytecode ==
    /\ pc = "paths"
    /\ stack = <<>>
    /\ handled = Len(paths)
    /\ bytecode_files' = BytecodeFiles(frozen_modules)
    /\ pc' = "write_main"
    /\ UNCHANGED <<tree, paths, handled, oss, stack, frozen_modules, log, main_c,
                   run, first_run>>

\* f.write_main(args.install_dir, args.oss)
write_main ==
    /\ pc = "write_main"
    /\ main_c' = MainFile(frozen_modules, oss)
    /\ pc' = "done"
    /\ UNCHANGED <<tree, paths, handled, oss, stack, frozen_modules, log,
                   bytecode_files, run, first_run>>

\* What a run leaves in install_dir.
Artifacts == [bytecode_files |-> bytecode_files, main_c |-> main_c]

\* The script is run once more on the unchanged tree, with the same
\* arguments and an empty install_dir.
RunAgain ==
    /\ pc = "done"
    /\ run = "first"
    /\ run' = "second"
    /\ first_run' = Artifacts
    /\ handled' = 0
    /\ stack' = <<>>
    /\ frozen_modules' = <<>>
    /\ log' = {}
    /\ bytecode_files' = <<>>
    /\ main_c' = <<>>
    /\ pc' = "paths"
    /\ UNCHANGED <<tree, paths, oss>>

\* One run of the script.
Next ==
    \/ NextRootPath
    \/ compile_package
    \/ compile_file
    \/ write_bytecode
    \/ write_main

Spec == Init /\ [][Next]_vars

\* Two runs of the script, one after the other.
NextTwice ==
    \/ NextRootPath
    \/ compile_package
    \/ compile_file
    \/ write_bytecode
    \/ write_main
    \/ RunAgain

SpecTwice == Init /\ [][NextTwice]_vars

-----------------------------------------------------------------------------
(* Vocabulary of the properties *)

HasMarker(t, d) == IsFile(t, d \o <<INIT_PY>>)

Eligible(f) == Suffix(f) = PY_SUFFIX /\ Name(f) \notin DENY_LIST

\* The directories from `top` down to the parent of f.
Chain(top, f) == {SubSeq(f, 1, n) : n \in Len(top)..(Len(f) - 1)}

\* f lies under the accepted package directory `top`: every directory from
\* `top` down to f's parent is not deny-listed and directly contains
\* __init__.py.
UnderPackage(t, top, f) ==
    /\ IsDir(t, top)
    /\ IsPrefix(top, f)
    /\ \A d \in Chain(top, f) : Name(d) \notin DENY_LIST /\ HasMarker(t, d)

\* The top package roots the k-th root path gives.
Tops(k) ==
    LET calls == RootCalls(tree, paths[k])
    IN  {calls[i].top_package_path : i \in 1..Len(calls)}

\* The root paths whose traversal reaches file f: under an accepted package
\* directory, or as a top-level unit of its own.
ReachingPackages(f) ==
    {k \in 1..Len(paths) : \E top \in Tops(k) : UnderPackage(tree, top, f)}
ReachingDirectly(f) == {k \in 1..Len(paths) : f \in Tops(k)}

N == Len(frozen_modules)
K == NUM_BYTECODE_FILES

RecordsOf(f) == {i \in 1..N : frozen_modules[i].path = f}

\* The byte-array definitions of the bytecode files that hold a record of f.
DefinitionsOf(f) ==
    LET written == {write_frozen(frozen_modules[i]) : i \in RecordsOf(f)}
    IN  {jk \in (1..Len(bytecode_files)) \X (1..N) :
            /\ jk[2] <= Len(bytecode_files[jk[1]])
            /\ bytecode_files[jk[1]][jk[2]] \in written}

\* The lines of main.c between "_PyImport_FrozenModules_torch[] = {" and the
\* next "};".
PrimaryTable ==
    LET open == CHOOSE n \in 1..Len(main_c) : main_c[n].kind = "table_torch"
        close == CHOOSE n \in (open + 1)..Len(main_c) :
                    /\ main_c[n].kind = "end"
                    /\ \A k \in (open + 1)..(n - 1) : main_c[k].kind # "end"
    IN  SubSeq(main_c, open + 1, close - 1)

\* The entries of the primary table that hold a record of f.
EntriesOf(f) ==
    LET table == PrimaryTable
        written == {EntryLine(frozen_modules[i]) : i \in RecordsOf(f)}
    IN  {n \in 1..Len(table) : table[n] \in written}

AllZero(line) ==
    line.kind = "entry" /\ line.name = Zero /\ line.symbol = Zero /\ line.size = 0

Sentinels(lines) == {n \in 1..Len(lines) : AllZero(lines[n])}

-----------------------------------------------------------------------------
(* The properties *)

\* C1: no two records of the catalog that come from two different source
\* files have the same qualified name.
C1_UniqueQualifiedNames ==
    \A i, j \in 1..N :
        frozen_modules[i].path # frozen_modules[j].path
            => frozen_modules[i].module_name # frozen_modules[j].module_name

\* C2: a second run on the unchanged tree with the same root paths and flags
\* leaves the same bytecode files and the same main.c as the first.
C2_Deterministic ==
    (run = "second" /\ pc = "done") => Artifacts = first_run

ReachedDirs ==
    {d \in Dirs(tree) :
        \/ \E code \in {"X", "S", "P"} : <<code, d>> \in log
        \/ \E k \in 1..handled : paths[k] = d}

\* C4, as stated: a reached directory (a root path included) that does not
\* directly contain __init__.py contributes no record: no record's source
\* file lies in it or below it.
C4_NoMarkerNoRecords ==
    \A d \in ReachedDirs :
        ~HasMarker(tree, d)
            => \A i \in 1..N : ~IsPrefix(d, frozen_modules[i].path)

\* C4, amended: a directory without __init__.py that the recursive
\* traversal reaches (compile_package) is skipped with everything below it:
\* every directory from a record's top package root down to the parent of
\* its source file directly contains __init__.py.  (A root path that is a
\* directory without __init__.py is not skipped: its entries are traversed
\* as top-level units.)
C4_SkippedContributesNothing ==
    \A i \in 1..N :
        LET m == frozen_modules[i]
        IN  \A d \in Chain(m.top_package_path, m.path) : HasMarker(tree, d)

\* C4 is exercised: compile_package skipped a directory without __init__.py
\* that holds a marked sub-package, and the run froze other modules.
C4_Witness ==
    /\ pc = "done"
    /\ N > 0
    /\ \E d \in Dirs(tree) :
          /\ <<"S", d>> \in log
          /\ \E f \in tree :
                /\ IsPrefix(d, f) /\ Eligible(f)
                /\ Parent(f) # d /\ HasMarker(tree, Parent(f))

\* The shape of the primary table of main.c: the catalog's records in
\* catalog order, then the sentinel, which is its only all-zero entry.
PrimaryTableShape ==
    LET table == PrimaryTable
    IN  /\ Len(table) = N + 1
        /\ \A i \in 1..N :
              /\ table[i].kind = "entry"
              /\ table[i].name = Quoted(frozen_modules[i].module_name)
              /\ table[i].symbol = frozen_modules[i].c_name
              /\ table[i].size = frozen_modules[i].size
        /\ Sentinels(table) = {N + 1}

\* C5, as stated: for either value of oss, the primary table of main.c is
\* the catalog followed by the sentinel, and the sentinel is the only
\* all-zero entry of main.c.
C5_OnlySentinelOfManifest ==
    main_c # <<>> =>
        /\ PrimaryTableShape
        /\ Cardinality(Sentinels(main_c)) = 1

\* C5, amended: the primary table is the catalog in catalog order followed
\* by the sentinel, its final and only all-zero entry; main.c holds no other
\* all-zero entry without oss, and with oss exactly one more, the only entry
\* of the second table, which ends main.c.
C5_ManifestShape ==
    main_c # <<>> =>
        /\ PrimaryTableShape
        /\ Cardinality(Sentinels(main_c)) = (IF oss THEN 2 ELSE 1)
        /\ Len(main_c) - 1 \in Sentinels(main_c)
        /\ oss => /\ main_c[Len(main_c) - 2].kind = "table"
                  /\ \A n \in 1..Len(main_c) : main_c[n].kind # "table" \/ n = Len(main_c) - 2
        /\ ~oss => \A n \in 1..Len(main_c) : main_c[n].kind # "table"

\* C5 is exercised: main.c written with oss for a catalog of two or more.
C5_Witness == pc = "done" /\ oss /\ N >= 2

\* C6: write_bytecode creates the K bytecode files and writes the i-th
\* record (0-indexed) to file i mod K and to no other, so that each file
\* holds floor(N/K) or ceil(N/K) definitions.
C6_RoundRobin ==
    bytecode_files # <<>> =>
        /\ Len(bytecode_files) = K
        /\ \A i \in 0..(N - 1) :
              /\ (i \div K) + 1 <= Len(bytecode_files[(i % K) + 1])
              /\ bytecode_files[(i % K) + 1][(i \div K) + 1]
                    = write_frozen(frozen_modules[i + 1])
        /\ \A j \in 1..K :
              \/ Len(bytecode_files[j]) = N \div K
              \/ Len(bytecode_files[j]) = (N + K - 1) \div K
        /\ \A j \in 1..K :
              Len(bytecode_files[j]) = Cardinality({i \in 0..(N - 1) : i % K = j - 1})

\* C6 is exercised: more records than bytecode files.
C6_Witness == pc = "done" /\ N > K

\* C7: the size of a record is strictly negative when its source file is
\* __init__.py and non-negative otherwise, and its absolute value is the
\* length of the record's bytecode.
C7_SignConvention ==
    \A i \in 1..N :
        LET m == frozen_modules[i]
        IN  /\ Name(m.path) = INIT_PY => m.size < 0
            /\ Name(m.path) # INIT_PY => m.size >= 0
            /\ (IF m.size < 0 THEN 0 - m.size ELSE m.size) = Len(m.bytecode)

\* C7 is exercised: the catalog holds a package and a plain module.
C7_Witness ==
    \E i, j \in 1..N :
        /\ Name(frozen_modules[i].path) = INIT_PY
        /\ Name(frozen_modules[j].path) # INIT_PY

\* The accepted source files among the root paths on which compile() fails.
BadAcceptedFiles ==
    {f \in tree :
        /\ Eligible(f) /\ ~SyntaxOk(f)
        /\ ReachingPackages(f) \cup ReachingDirectly(f) # {}}

\* C8: if compile() fails on an accepted source file among the root paths,
\* neither write_bytecode nor write_main is executed: no bytecode file and
\* no main.c is written.
C8_FatalPropagation ==
    (pc \in {"write_main", "done"} \/ bytecode_files # <<>> \/ main_c # <<>>)
        => BadAcceptedFiles = {}

\* C8 is exercised: compile() failed on an accepted file after other files
\* had been frozen.
C8_Witness ==
    /\ pc = "aborted"
    /\ N > 0
    /\ \E f \in BadAcceptedFiles : <<"F", f>> \in log

\* C9: the symbol name is a function of the qualified name and two records
\* with different qualified names never have the same symbol name.
C9_ManglingOneToOne ==
    \A i, j \in 1..N :
        frozen_modules[i].module_name = frozen_modules[j].module_name
            <=> frozen_modules[i].c_name = frozen_modules[j].c_name

\* The segments C10 gives the record's qualified name: the path relative to
\* the parent of the top package root, without the .py suffix; for
\* __init__.py, those of the containing directory.
ClaimedSegments(m) ==
    LET rel == RelativeTo(m.path, Parent(m.top_package_path))
    IN  IF Name(rel) = INIT_PY THEN Parent(rel)
        ELSE Parent(rel) \o <<SubSeq(Name(rel), 1, Len(Name(rel)) - Len(PY_SUFFIX))>>

\* C10: the qualified name of every record is the dot-joined segments C10
\* gives, and its last segment is never empty and never "__init__".
C10_NamingCorrect ==
    \A i \in 1..N :
        LET m == frozen_modules[i]
            segments == ClaimedSegments(m)
        IN  /\ segments # <<>>
            /\ Name(segments) # <<>>
            /\ Name(segments) # <<"_", "_", "i", "n", "i", "t", "_", "_">>
            /\ m.module_name = Join(<<".">>, segments)

====
